---- MODULE Spec2Model ----
(***************************************************************************)
(* ViewChecker backend: the KRDS analysis assembler (analyzer.js) and the  *)
(* exception override engine (exceptionHandler.js), as a state machine of  *)
(* one POST /api/analyze request.                                          *)
(*                                                                         *)
(* JavaScript values.  A property that may hold a number, a string or be   *)
(* absent is a tagged record [t, n, s] (JSNum, JSStr, JSUndefined).  A     *)
(* property that only ever holds a string is a TLA+ string, with "" for    *)
(* both the empty string and the absent property: every read of such a     *)
(* property in the source goes through `||`, which treats both alike.      *)
(* Arrays are sequences.  Objects that the source could share between the  *)
(* input and the output of applyExceptions (the AnalysisResult and its     *)
(* krdsCompliance) live in `heap` and are named by references.             *)
(*                                                                         *)
(* The source's Korean string literals are written in ASCII here; each     *)
(* definition names the literal it stands for.                             *)
(***************************************************************************)
EXTENDS Integers, Sequences, FiniteSets

VARIABLES
  pc,           \* position in the request: "start", "analyzed", "adjusted", "readjusted"
  heap,         \* sequence of objects; a reference is an index into it
  analysisRef,  \* reference to the AnalysisResult built by performKRDSAnalysis (0: none)
  exceptions,   \* the request's exception list (req.body.exceptions)
  checklistId,  \* the request's checklist_id
  finalRef,     \* reference returned by applyExceptions (0: none)
  againRef,     \* reference returned by applyExceptions applied to its own result (0: none)
  items,        \* section under adjustment (adjustSection call)
  group,        \* exception group handed to adjustSection
  keyField,     \* key field handed to adjustSection
  adjustedItems,\* value returned by adjustSection
  pageAudit,    \* what the accessibility audit of the analysed page did
  categoryScore,\* what the two calculateCategoryScore functions return for `items` (<<>>: not called)
  browser,      \* the browser of analyzeWebsite: "none" (not launched), "open", "closed"
  error,        \* message of the error analyzeWebsite caught ("": none)
  analysisResult \* what analyzeWebsite delivered (<<>>: nothing yet)

vars == <<pc, heap, analysisRef, exceptions, checklistId, finalRef, againRef,
          items, group, keyField, adjustedItems, pageAudit,
          categoryScore, browser, error, analysisResult>>

-----------------------------------------------------------------------------
(* Bounds of the model *)

\* longest section (number of items the extractors of one section return)
MaxItems == 2
\* longest exception list of a request
MaxExceptions == 2
\* most violations an audit reports
MaxViolations == 2
\* most passes an audit reports
MaxPasses == 2

-----------------------------------------------------------------------------
(* JavaScript values *)

JSNum(n) == [t |-> "number", n |-> n, s |-> ""]
JSStr(s) == [t |-> "string", n |-> 0, s |-> s]
JSUndefined == [t |-> "undefined", n |-> 0, s |-> ""]

\* ToBoolean of a value: 0 and "" and undefined are falsy
Truthy(v) ==
  CASE v.t = "number" -> v.n # 0
    [] v.t = "string" -> v.s # ""
    [] OTHER -> FALSE

\* NaN, the number that arithmetic on a non-numeric string yields
JSNaN == [t |-> "NaN", n |-> 0, s |-> ""]

\* a || b
JSOr(a, b) == IF Truthy(a) THEN a ELSE b

\* a || b on string properties ("" is the absent property)
StrOr(a, b) == IF a # "" THEN a ELSE b

\* Math.round(total / n) for total >= 0 and n > 0: round half up
MathRound(total, n) == (2 * total + n) \div (2 * n)

RECURSIVE SumSeq(_)
SumSeq(s) == IF s = <<>> THEN 0 ELSE Head(s) + SumSeq(Tail(s))

\* Array.prototype.includes on an array of strings
Includes(s, x) == \E i \in 1..Len(s) : s[i] = x

-----------------------------------------------------------------------------
(* String literals of the source *)

\* '디자인 스타일'
SEC_DESIGN == "design-styles"
\* '컴포넌트'
SEC_COMPONENT == "components"
\* '기본 패턴'
SEC_BASIC == "basic-patterns"
\* '서비스 패턴'
SEC_SERVICE == "service-patterns"
\* '기타'
SEC_OTHER == "other"
\* '준수'
COMPLIANT == "compliant"
\* '미준수'
NON_COMPLIANT == "non-compliant"
\* '예외 항목'
DEFAULT_REASON == "exception item"
\* '예외 처리로 완벽 준수'
PASSED_BY_EXCEPTION == "fully compliant by exception"

RecognizedSections == {SEC_DESIGN, SEC_COMPONENT, SEC_BASIC, SEC_SERVICE}

-----------------------------------------------------------------------------
(* analyzer.js: the items the section analysers build *)

\* analyzeDesignStyles: the category names, in the order they are analysed
\* ('색상', '타이포그래피', '버튼' of the source's list)
categories == <<"colors", "typography", "Buttons">>
\* analyzeComponents: the component types
componentTypes == <<"button", "input", "select">>
\* analyzeBasicPatterns: '레이아웃', '네비게이션', '정보구조'
basicPatternNames == <<"layout", "navigation", "structure">>
\* analyzeServicePatterns: '로그인', '검색', '목록/상세'
servicePatternNames == <<"login", "search", "list-detail">>

\* analyzeDesignStyleCategory: the scores the extractor of a category can return
\* (analyzeColors, analyzeTypography and analyzeButtons return a grade or a
\* percentage; representatives per category)
DesignScores(category) ==
  CASE category = "colors" -> {40, 90}
    [] category = "typography" -> {70}
    [] OTHER -> {0}

\* analyzeComponentType: 100 when the page has no such component, else 60..89
ComponentScores(type) ==
  CASE type = "button" -> {75}
    [] type = "input" -> {100}
    [] OTHER -> {60}

\* analyzeBasicPatterns / analyzeServicePatterns: Math.floor(Math.random()*30)+60
BasicPatternScores == {60}
ServicePatternScores == {85}

\* `${category} 개선 필요`
NeedsImprovement(name) == name \o " needs improvement"

\* the object analyzeDesignStyles pushes for one category
DesignStyleItem(category, score) ==
  [category |-> category, type |-> "", name |-> category, englishName |-> "",
   score |-> JSNum(score), compliance |-> JSNum(score),
   issues |-> IF score < 80 THEN <<NeedsImprovement(category)>> ELSE <<>>,
   excluded |-> FALSE, exclusionReason |-> ""]

\* the object analyzeComponents pushes for one component type
ComponentItem(type, score) ==
  [category |-> "", type |-> type, name |-> type, englishName |-> "",
   score |-> JSNum(score),
   compliance |-> IF score >= 80 THEN JSStr(COMPLIANT) ELSE JSStr(NON_COMPLIANT),
   issues |-> IF score < 80 THEN <<NeedsImprovement(type)>> ELSE <<>>,
   excluded |-> FALSE, exclusionReason |-> ""]

\* the object analyzeBasicPatterns / analyzeServicePatterns pushes for one pattern
PatternItem(pattern, score) ==
  [category |-> "", type |-> "", name |-> pattern, englishName |-> pattern,
   score |-> JSNum(score), compliance |-> JSUndefined,
   issues |-> <<>>, excluded |-> FALSE, exclusionReason |-> ""]

\* the arrays the four section analysers can return: the first n names of the
\* section's list, n <= MaxItems, each with a score its extractor can return.
\* The source's lists are fixed (9, 8, 6 and 5 names); n ranges from 0 so that
\* the results handed to applyExceptions include sections without items.
DesignStyleResults ==
  UNION {{[i \in 1..n |-> DesignStyleItem(categories[i], sc[i])] :
            sc \in {f \in [1..n -> 0..100] : \A i \in 1..n : f[i] \in DesignScores(categories[i])}} :
         n \in 0..MaxItems}
ComponentResults ==
  UNION {{[i \in 1..n |-> ComponentItem(componentTypes[i], sc[i])] :
            sc \in {f \in [1..n -> 0..100] : \A i \in 1..n : f[i] \in ComponentScores(componentTypes[i])}} :
         n \in 0..MaxItems}
BasicPatternResults ==
  UNION {{[i \in 1..n |-> PatternItem(basicPatternNames[i], sc[i])] :
            sc \in [1..n -> BasicPatternScores]} : n \in 0..MaxItems}
ServicePatternResults ==
  UNION {{[i \in 1..n |-> PatternItem(servicePatternNames[i], sc[i])] :
            sc \in [1..n -> ServicePatternScores]} : n \in 0..MaxItems}

-----------------------------------------------------------------------------
(* analyzer.js: aggregation *)

\* analyzer.js calculateCategoryScore: sum + (item.score || 0), rounded mean
\* (the scores of the items built above are numbers)
analyzer_calculateCategoryScore(its) ==
  IF Len(its) = 0 THEN 0
  ELSE MathRound(SumSeq([i \in 1..Len(its) |-> JSOr(its[i].score, JSNum(0)).n]), Len(its))

\* analyzer.js calculateCategoryScore on items of any shape, as a JavaScript
\* value.  `sum + (item.score || 0)` has no typeof test: with a non-empty string
\* score the sum becomes a string (concatenation), and Math.round of that string
\* divided by the length is NaN when the string score is not numeric text, as
\* the string scores of the model are.
analyzer_calculateCategoryScoreValue(its) ==
  IF \E i \in 1..Len(its) : its[i].score.t = "string" /\ Truthy(its[i].score)
  THEN JSNaN
  ELSE JSNum(analyzer_calculateCategoryScore(its))

\* analyzer.js calculateOverallScore: the mean of the four section aggregates,
\* always divided by four
analyzer_calculateOverallScore(data) ==
  LET scores == <<analyzer_calculateCategoryScore(data.designStyles),
                  analyzer_calculateCategoryScore(data.components),
                  analyzer_calculateCategoryScore(data.basicPatterns),
                  analyzer_calculateCategoryScore(data.servicePatterns)>>
  IN MathRound(SumSeq(scores), Len(scores))

\* String.prototype.toLowerCase on the category names of the model
toLowerCase(s) ==
  CASE s = "Buttons" -> "buttons"
    [] OTHER -> s

\* convertDesignStylesToTokens: tokens[category.toLowerCase()] = {...}; a later
\* style of the same key overwrites an earlier one
convertDesignStylesToTokens(designStyles) ==
  LET keys == {toLowerCase(designStyles[i].category) : i \in 1..Len(designStyles)}
      last(k) == CHOOSE i \in 1..Len(designStyles) :
                   /\ toLowerCase(designStyles[i].category) = k
                   /\ \A j \in (i+1)..Len(designStyles) :
                        toLowerCase(designStyles[j].category) # k
  IN [k \in keys |->
        [score |-> designStyles[last(k)].score,
         compliance |-> <<>>,
         issues |-> designStyles[last(k)].issues,
         passed |-> IF designStyles[last(k)].score.n >= 80 THEN <<COMPLIANT>> ELSE <<>>,
         excluded |-> FALSE]]

-----------------------------------------------------------------------------
(* analyzer.js: accessibility audit *)

\* generateKWCAGReport counting only 'serious' violations as critical
generateKWCAGReport_seriousOnly(axeResults) ==
  LET violations == axeResults.violations
      passes == axeResults.passes
      totalTests == Len(violations) + passes
      criticalViolations == SelectSeq(violations, LAMBDA v : v = "serious")
  IN [overallCompliance |-> IF totalTests > 0 THEN MathRound(passes * 100, totalTests) ELSE 0,
      wcagLevel |-> IF Len(violations) = 0 THEN "AA"
                    ELSE IF Len(criticalViolations) = 0 THEN "A" ELSE "None",
      violations |-> Len(violations),
      passes |-> passes]

\* generateKWCAGReport on the audit's violations (a sequence of impact strings,
\* "" for a record without impact) and its number of passes; the report's
\* byCategory, levelA and levelAA, which read rule ids and tags, are left out
generateKWCAGReport(axeResults) ==
  LET violations == axeResults.violations
      passes == axeResults.passes
      totalTests == Len(violations) + passes
      criticalViolations ==
        SelectSeq(violations, LAMBDA v : v = "critical" \/ v = "serious")
  IN [overallCompliance |-> IF totalTests > 0 THEN MathRound(passes * 100, totalTests) ELSE 0,
      wcagLevel |-> IF Len(violations) = 0 THEN "AA"
                    ELSE IF Len(criticalViolations) = 0 THEN "A" ELSE "None",
      violations |-> Len(violations),
      passes |-> passes]

\* runAxeAnalysis: outcome is either the audit's report ([failed |-> FALSE,
\* violations, passes]) or an exception thrown by the injection or the run
runAxeAnalysis(outcome) ==
  IF ~outcome.failed
  THEN LET axeResults == [violations |-> outcome.violations, passes |-> outcome.passes]
       IN [axeResults |-> axeResults, kwcagReport |-> generateKWCAGReport(axeResults)]
  ELSE [axeResults |-> [violations |-> <<>>, passes |-> 0],
        kwcagReport |-> [overallCompliance |-> 0, wcagLevel |-> "None",
                         violations |-> 0, passes |-> 0]]

-----------------------------------------------------------------------------
(* exceptionHandler.js *)

\* SectionOf with the fallback to exc.category forgotten
SectionOf_sectionOnly(exc) == StrOr(exc.section, SEC_OTHER)

\* groupExceptionsBySection: the key an exception is grouped under
SectionOf(exc) == StrOr(exc.section, StrOr(exc.category, SEC_OTHER))

\* groupExceptionsBySection: the keys of `grouped`, in insertion order
RECURSIVE GroupKeys(_)
GroupKeys(excs) ==
  IF excs = <<>> THEN <<>>
  ELSE LET front == GroupKeys(SubSeq(excs, 1, Len(excs) - 1))
           section == SectionOf(excs[Len(excs)])
       IN IF Includes(front, section) THEN front ELSE Append(front, section)

\* groupExceptionsBySection: grouped[section], the exceptions pushed under a key
groupExceptionsBySection(excs) ==
  [keys |-> GroupKeys(excs),
   of |-> [section \in {SectionOf(excs[i]) : i \in 1..Len(excs)} |->
             SelectSeq(excs, LAMBDA e : SectionOf(e) = section)]]

\* exceptionsBySection[section] is truthy
HasGroup(bySection, section) == section \in DOMAIN bySection.of

\* ExcludedKeys with .filter(Boolean) forgotten
ExcludedKeys_unfiltered(excs) ==
  [i \in 1..Len(excs) |-> StrOr(excs[i].item_key, StrOr(excs[i].item_name, ""))]

\* exceptions.map(e => e.item_key || e.item_name || '').filter(Boolean)
ExcludedKeys(excs) ==
  SelectSeq([i \in 1..Len(excs) |-> StrOr(excs[i].item_key, StrOr(excs[i].item_name, ""))],
            LAMBDA k : k # "")

\* item[keyField] || item.name || item.englishName || ''
ItemKey(item, kf) == StrOr(item[kf], StrOr(item.name, StrOr(item.englishName, "")))

\* ExclusionReason looking the exception up by item_name alone
ExclusionReason_byNameOnly(excs, itemKey) ==
  LET hits == SelectSeq(excs, LAMBDA e : e.item_name = itemKey)
  IN IF hits = <<>> THEN DEFAULT_REASON ELSE StrOr(hits[1].reason, DEFAULT_REASON)

\* exceptions.find(e => (e.item_key || e.item_name) === itemKey)?.reason || '예외 항목'
ExclusionReason(excs, itemKey) ==
  LET hits == SelectSeq(excs, LAMBDA e : StrOr(e.item_key, e.item_name) = itemKey)
  IN IF hits = <<>> THEN DEFAULT_REASON ELSE StrOr(hits[1].reason, DEFAULT_REASON)

\* ExcludedItem writing score 0
ExcludedItem_scoreZero(item, reason) ==
  [item EXCEPT !.score = JSNum(0),
               !.compliance = IF item.compliance.t = "string"
                              THEN JSStr(COMPLIANT) ELSE JSNum(100),
               !.issues = <<>>,
               !.excluded = TRUE,
               !.exclusionReason = reason]

\* ExcludedItem with the typeof test on compliance inverted
ExcludedItem_complianceInverted(item, reason) ==
  [item EXCEPT !.score = JSNum(100),
               !.compliance = IF item.compliance.t = "string"
                              THEN JSNum(100) ELSE JSStr(COMPLIANT),
               !.issues = <<>>,
               !.excluded = TRUE,
               !.exclusionReason = reason]

\* adjustSection: the object returned for an item whose key is excluded
ExcludedItem(item, reason) ==
  [item EXCEPT !.score = JSNum(100),
               !.compliance = IF item.compliance.t = "string"
                              THEN JSStr(COMPLIANT) ELSE JSNum(100),
               !.issues = <<>>,
               !.excluded = TRUE,
               !.exclusionReason = reason]

adjustSection(its, excs, kf) ==
  IF Len(its) = 0 THEN its
  ELSE LET excludedKeys == ExcludedKeys(excs)
       IN [i \in 1..Len(its) |->
             IF Includes(excludedKeys, ItemKey(its[i], kf))
             THEN ExcludedItem(its[i], ExclusionReason(excs, ItemKey(its[i], kf)))
             ELSE its[i]]

adjustDesignTokensDetail(detail, excs) ==
  LET excludedKeys == ExcludedKeys(excs)
  IN [key \in DOMAIN detail |->
        IF Includes(excludedKeys, key)
        THEN [detail[key] EXCEPT !.score = JSNum(100),
                                 !.compliance = <<>>,
                                 !.issues = <<>>,
                                 !.passed = <<PASSED_BY_EXCEPTION>>,
                                 !.excluded = TRUE]
        ELSE detail[key]]

\* exceptionHandler.js calculateCategoryScore: item.score || item.compliance || 0,
\* counted only when it is a number
handler_calculateCategoryScore(its) ==
  IF Len(its) = 0 THEN 0
  ELSE LET value(item) == JSOr(JSOr(item.score, item.compliance), JSNum(0))
           counted(item) == IF value(item).t = "number" THEN value(item).n ELSE 0
       IN MathRound(SumSeq([i \in 1..Len(its) |-> counted(its[i])]), Len(its))

\* exceptionHandler.js calculateOverallScore: the mean of the aggregates of the
\* sections that have items
handler_calculateOverallScore(data) ==
  LET s1 == IF Len(data.designStyles) > 0
            THEN <<handler_calculateCategoryScore(data.designStyles)>> ELSE <<>>
      s2 == IF Len(data.components) > 0
            THEN Append(s1, handler_calculateCategoryScore(data.components)) ELSE s1
      s3 == IF Len(data.basicPatterns) > 0
            THEN Append(s2, handler_calculateCategoryScore(data.basicPatterns)) ELSE s2
      scores == IF Len(data.servicePatterns) > 0
                THEN Append(s3, handler_calculateCategoryScore(data.servicePatterns)) ELSE s3
  IN IF Len(scores) = 0 THEN 0 ELSE MathRound(SumSeq(scores), Len(scores))

\* JSONClone as a shallow copy ({...analysisResults}): a new AnalysisResult object
\* that shares the krdsCompliance object of the original
JSONClone_shallow(h, ref) == [heap |-> Append(h, h[ref]), ref |-> Len(h) + 1]

\* JSON.parse(JSON.stringify(analysisResults)): a new AnalysisResult object and a
\* new krdsCompliance object with the same contents; ref names the new root
JSONClone(h, ref) ==
  [heap |-> h \o <<h[h[ref].krdsCompliance],
                   [h[ref] EXCEPT !.krdsCompliance = Len(h) + 1]>>,
   ref |-> Len(h) + 2]

\* applyExceptions, "각 섹션 조정": adjusted.<field> = adjustSection(adjusted.<field>,
\* exceptionsBySection[section], kf) when the section has a group
AdjustField(h, adjusted, bySection, section, field, kf) ==
  IF HasGroup(bySection, section)
  THEN [h EXCEPT ![adjusted][field] = adjustSection(h[adjusted][field], bySection.of[section], kf)]
  ELSE h

\* applyExceptions, "krdsCompliance 내부 데이터도 조정": the two writes through
\* adjusted.krdsCompliance
AdjustKrdsCompliance(h, krds, bySection) ==
  LET withTokens(g) ==
        IF HasGroup(bySection, SEC_DESIGN)
        THEN [g EXCEPT ![krds].designTokensDetail =
                adjustDesignTokensDetail(g[krds].designTokensDetail, bySection.of[SEC_DESIGN])]
        ELSE g
  IN AdjustField(withTokens(h), krds, bySection, SEC_COMPONENT, "krdsComponents", "type")

\* applyExceptions, "전체 점수 재계산" and "조정 정보 추가": originalScore is read
\* through the parameter, the new score and exceptionInfo are written through adjusted
Recompute(h, analysisResults, adjusted, excs, cid, bySection) ==
  LET originalScore == h[analysisResults].overallScore
      overallScore == handler_calculateOverallScore(h[adjusted])
      write(score) ==
        [h EXCEPT ![adjusted].overallScore = score,
                  ![adjusted].exceptionInfo =
                    <<[applied |-> TRUE,
                       checklistId |-> cid,
                       totalExceptions |-> Len(excs),
                       originalScore |-> originalScore,
                       adjustedScore |-> score,
                       scoreDifference |-> score - originalScore,
                       sections |-> bySection.keys]>>]
  IN write(overallScore)

\* applyExceptions: the heap after the call and the reference it returns.  Every
\* assignment of the source is a write through the reference `adjusted`.
ApplyToClone(clone, analysisResults, excs, cid, bySection) ==
  [heap |-> Recompute(
              AdjustKrdsCompliance(
                AdjustField(
                  AdjustField(
                    AdjustField(
                      AdjustField(clone.heap, clone.ref, bySection, SEC_DESIGN, "designStyles", "category"),
                      clone.ref, bySection, SEC_COMPONENT, "components", "type"),
                    clone.ref, bySection, SEC_BASIC, "basicPatterns", "name"),
                  clone.ref, bySection, SEC_SERVICE, "servicePatterns", "name"),
                clone.heap[clone.ref].krdsCompliance, bySection),
              analysisResults, clone.ref, excs, cid, bySection),
   ref |-> clone.ref]

applyExceptions(h, analysisResults, excs, cid) ==
  IF Len(excs) = 0 THEN [heap |-> h, ref |-> analysisResults]
  ELSE ApplyToClone(JSONClone(h, analysisResults), analysisResults, excs, cid,
                    groupExceptionsBySection(excs))

-----------------------------------------------------------------------------
(* The request: POST /api/analyze *)

Exc(item_key, item_name, section, category, reason) ==
  [item_key |-> item_key, item_name |-> item_name, section |-> section,
   category |-> category, reason |-> reason]

\* the exception requests a client sends
ExceptionRequests ==
  { Exc("colors", "", SEC_DESIGN, "", "agency exemption"),
    Exc("colors", "", "", "", "agency exemption"),
    Exc("", "button", "", SEC_COMPONENT, ""),
    Exc("layout", "", SEC_BASIC, "", "legacy layout"),
    Exc("login", "", SEC_SERVICE, "", "single sign-on"),
    Exc("nonexistent", "", SEC_SERVICE, "", "not applicable") }

\* req.body.exceptions: every list of at most MaxExceptions requests
ExceptionLists == UNION {[1..n -> ExceptionRequests] : n \in 0..MaxExceptions}

\* req.body.checklist_id
ChecklistIds == {"template-123"}

\* what the accessibility audit of the page does: it throws, or it reports
AuditFailure == [failed |-> TRUE, violations |-> <<>>, passes |-> 0]
AuditReport(violations, passes) ==
  [failed |-> FALSE, violations |-> violations, passes |-> passes]
\* the audit of the page under analysis in a request
PageAudits == {AuditReport(<<"serious">>, 1)}

\* performKRDSAnalysis on a page whose section analysers return designStyles,
\* components, basicPatterns, servicePatterns and whose audit does `audit`:
\* the AnalysisResult and its krdsCompliance are two new objects
PerformKRDSAnalysis(designStyles, components, basicPatterns, servicePatterns, audit) ==
  /\ pc = "start"
  /\ LET axe == runAxeAnalysis(audit)
         overallScore == analyzer_calculateOverallScore(
                           [designStyles |-> designStyles, components |-> components,
                            basicPatterns |-> basicPatterns,
                            servicePatterns |-> servicePatterns])
         krdsCompliance ==
           [score |-> overallScore,
            designTokensDetail |-> convertDesignStylesToTokens(designStyles),
            krdsComponents |-> components,
            basicPatterns |-> [overallScore |-> analyzer_calculateCategoryScore(basicPatterns)],
            servicePatterns |-> [overallScore |-> analyzer_calculateCategoryScore(servicePatterns)]]
         result ==
           [overallScore |-> overallScore,
            designStyles |-> designStyles,
            components |-> components,
            basicPatterns |-> basicPatterns,
            servicePatterns |-> servicePatterns,
            axeResults |-> axe.axeResults,
            kwcagReport |-> axe.kwcagReport,
            krdsCompliance |-> Len(heap) + 1,
            exceptionInfo |-> <<>>]
     IN /\ heap' = heap \o <<krdsCompliance, result>>
        /\ analysisRef' = Len(heap) + 2
  /\ pageAudit' = audit
  /\ pc' = "analyzed"
  /\ UNCHANGED <<exceptions, checklistId, finalRef, againRef,
                 items, group, keyField, adjustedItems,
                 categoryScore, browser, error, analysisResult>>

\* the request handler's call applyExceptions(analysisResult.data, exceptions, checklist_id)
ApplyExceptions(excs, cid) ==
  /\ pc = "analyzed"
  /\ LET r == applyExceptions(heap, analysisRef, excs, cid)
     IN /\ heap' = r.heap
        /\ finalRef' = r.ref
  /\ exceptions' = excs
  /\ checklistId' = cid
  /\ pc' = "adjusted"
  /\ UNCHANGED <<analysisRef, againRef, items, group, keyField, adjustedItems, pageAudit,
                 categoryScore, browser, error, analysisResult>>

\* applyExceptions once more, on its own result, with the same list and id
ReapplyExceptions ==
  /\ pc = "adjusted"
  /\ LET r == applyExceptions(heap, finalRef, exceptions, checklistId)
     IN /\ heap' = r.heap
        /\ againRef' = r.ref
  /\ pc' = "readjusted"
  /\ UNCHANGED <<analysisRef, exceptions, checklistId, finalRef,
                 items, group, keyField, adjustedItems, pageAudit,
                 categoryScore, browser, error, analysisResult>>

Init ==
  /\ pc = "start"
  /\ heap = <<>>
  /\ analysisRef = 0
  /\ exceptions = <<>>
  /\ checklistId = ""
  /\ finalRef = 0
  /\ againRef = 0
  /\ items = <<>>
  /\ group = <<>>
  /\ keyField = ""
  /\ adjustedItems = <<>>
  /\ pageAudit = AuditReport(<<>>, 0)
  /\ categoryScore = <<>>
  /\ browser = "none"
  /\ error = ""
  /\ analysisResult = <<>>

Next ==
  \/ /\ pc = "start"
     /\ \E designStyles \in DesignStyleResults, components \in ComponentResults,
           basicPatterns \in BasicPatternResults, servicePatterns \in ServicePatternResults,
           audit \in PageAudits :
          PerformKRDSAnalysis(designStyles, components, basicPatterns, servicePatterns, audit)
  \/ /\ pc = "analyzed"
     /\ \E excs \in ExceptionLists, cid \in ChecklistIds : ApplyExceptions(excs, cid)
  \/ ReapplyExceptions

Spec == Init /\ [][Next]_vars

-----------------------------------------------------------------------------
(* adjustSection on its own: any section, any exception group *)

\* items as applyExceptions can receive them: with and without the designated
\* key field, name and englishName, with numeric, string and absent compliance
SectionItem(category, name, englishName, compliance) ==
  [category |-> category, type |-> "", name |-> name, englishName |-> englishName,
   score |-> JSNum(40), compliance |-> compliance,
   issues |-> <<"low contrast">>, excluded |-> FALSE, exclusionReason |-> ""]

SectionItems ==
  { SectionItem("colors", "palette", "", JSNum(40)),
    SectionItem("", "palette", "tone", JSStr(NON_COMPLIANT)),
    SectionItem("", "", "tone", JSUndefined),
    SectionItem("", "", "", JSNum(40)) }

SectionItemLists == UNION {[1..n -> SectionItems] : n \in 0..MaxItems}

\* the exceptions of one group: with and without item_key, item_name and reason
GroupedExceptions ==
  { Exc("colors", "", SEC_DESIGN, "", "agency exemption"),
    Exc("colors", "", SEC_DESIGN, "", ""),
    Exc("", "palette", SEC_DESIGN, "", "brand palette"),
    Exc("tone", "palette", SEC_DESIGN, "", "house tone"),
    Exc("", "", SEC_DESIGN, "", "no key") }

\* a group of groupExceptionsBySection is never empty
ExceptionGroups == UNION {[1..n -> GroupedExceptions] : n \in 1..MaxExceptions}

\* the key fields applyExceptions passes to adjustSection
KeyFields == {"category", "type", "name"}

\* a call adjustSection(items, exceptions, keyField)
AdjustSection ==
  /\ pc = "section"
  /\ adjustedItems' = adjustSection(items, group, keyField)
  /\ pc' = "sectionAdjusted"
  /\ UNCHANGED <<heap, analysisRef, exceptions, checklistId, finalRef, againRef,
                 items, group, keyField, pageAudit,
                 categoryScore, browser, error, analysisResult>>

InitSection ==
  /\ pc = "section"
  /\ heap = <<>>
  /\ analysisRef = 0
  /\ exceptions = <<>>
  /\ checklistId = ""
  /\ finalRef = 0
  /\ againRef = 0
  /\ items \in SectionItemLists
  /\ group \in ExceptionGroups
  /\ keyField \in KeyFields
  /\ adjustedItems = <<>>
  /\ pageAudit = AuditReport(<<>>, 0)
  /\ categoryScore = <<>>
  /\ browser = "none"
  /\ error = ""
  /\ analysisResult = <<>>

NextSection == AdjustSection

SpecSection == InitSection /\ [][NextSection]_vars

-----------------------------------------------------------------------------
(* performKRDSAnalysis over the outcomes of the accessibility audit *)

\* impact of a violation record; "" is a record without impact
Impacts == {"critical", "serious", "moderate", ""}

AuditOutcomes ==
  {AuditFailure} \cup
  UNION {{AuditReport(violations, passes) :
            violations \in [1..n -> Impacts], passes \in 0..MaxPasses} :
         n \in 0..MaxViolations}

NextAxe ==
  /\ pc = "start"
  /\ \E designStyles \in DesignStyleResults, components \in ComponentResults,
        basicPatterns \in BasicPatternResults, servicePatterns \in ServicePatternResults,
        audit \in AuditOutcomes :
       PerformKRDSAnalysis(designStyles, components, basicPatterns, servicePatterns, audit)

SpecAxe == Init /\ [][NextAxe]_vars

-----------------------------------------------------------------------------
(* calculateCategoryScore on its own: both functions of that name, any items *)

\* an item as a caller can hand it to calculateCategoryScore
CategoryItem(score, compliance) ==
  [category |-> "", type |-> "", name |-> "item", englishName |-> "",
   score |-> score, compliance |-> compliance,
   issues |-> <<>>, excluded |-> FALSE, exclusionReason |-> ""]

\* item.score: a number (0 included), absent, or a string that is not numeric text
CategoryItemScores == {JSNum(0), JSNum(45), JSNum(100), JSUndefined, JSStr("high")}
\* item.compliance: a number, a string, or absent
CategoryItemCompliances == {JSNum(50), JSStr(NON_COMPLIANT), JSUndefined}

CategoryItems ==
  {CategoryItem(score, compliance) :
     score \in CategoryItemScores, compliance \in CategoryItemCompliances}

CategoryItemLists == UNION {[1..n -> CategoryItems] : n \in 0..MaxItems}

\* a call calculateCategoryScore(items) of each of the two functions
CalculateCategoryScore ==
  /\ pc = "category"
  /\ categoryScore' = <<[handler |-> handler_calculateCategoryScore(items),
                         analyzer |-> analyzer_calculateCategoryScoreValue(items)]>>
  /\ pc' = "categoryScored"
  /\ UNCHANGED <<heap, analysisRef, exceptions, checklistId, finalRef, againRef,
                 items, group, keyField, adjustedItems, pageAudit,
                 browser, error, analysisResult>>

InitCategory ==
  /\ pc = "category"
  /\ heap = <<>>
  /\ analysisRef = 0
  /\ exceptions = <<>>
  /\ checklistId = ""
  /\ finalRef = 0
  /\ againRef = 0
  /\ items \in CategoryItemLists
  /\ group = <<>>
  /\ keyField = ""
  /\ adjustedItems = <<>>
  /\ pageAudit = AuditReport(<<>>, 0)
  /\ categoryScore = <<>>
  /\ browser = "none"
  /\ error = ""
  /\ analysisResult = <<>>

NextCategory == CalculateCategoryScore

SpecCategory == InitCategory /\ [][NextCategory]_vars

-----------------------------------------------------------------------------
(* analyzer.js analyzeWebsite: the browser session around performKRDSAnalysis *)

\* what analyzeWebsite neither reads nor writes outside performKRDSAnalysis
requestVars == <<heap, analysisRef, exceptions, checklistId, finalRef, againRef,
                 items, group, keyField, adjustedItems, pageAudit, categoryScore>>

\* error.message of what each awaited call can throw
LAUNCH_FAILED == "browserType.launch: failed"
NEW_CONTEXT_FAILED == "browser.newContext: failed"
NEW_PAGE_FAILED == "browserContext.newPage: failed"
GOTO_TIMEOUT == "page.goto: Timeout 60000ms exceeded"
ANALYSIS_FAILED == "page.evaluate: failed"
CLOSE_FAILED == "browser.close: failed"

\* a throw inside the try block: control goes to the catch block with the error
Throw(message) ==
  /\ pc' = "catch"
  /\ error' = message

\* browser = await chromium.launch(...): the assignment happens only when the
\* call resolves
Launch(ok) ==
  /\ pc = "launch"
  /\ IF ok
     THEN /\ browser' = "open"
          /\ pc' = "newContext"
          /\ UNCHANGED error
     ELSE /\ Throw(LAUNCH_FAILED)
          /\ UNCHANGED browser
  /\ UNCHANGED <<requestVars, analysisResult>>

\* const context = await browser.newContext(...)
NewContext(ok) ==
  /\ pc = "newContext"
  /\ IF ok THEN pc' = "newPage" /\ UNCHANGED error ELSE Throw(NEW_CONTEXT_FAILED)
  /\ UNCHANGED <<requestVars, browser, analysisResult>>

\* const page = await context.newPage()
NewPage(ok) ==
  /\ pc = "newPage"
  /\ IF ok THEN pc' = "goto" /\ UNCHANGED error ELSE Throw(NEW_PAGE_FAILED)
  /\ UNCHANGED <<requestVars, browser, analysisResult>>

\* await page.goto(url, {waitUntil: 'networkidle', timeout: 60000}): the page
\* loads within the timeout, or the call throws
Goto(ok) ==
  /\ pc = "goto"
  /\ IF ok THEN pc' = "start" /\ UNCHANGED error ELSE Throw(GOTO_TIMEOUT)
  /\ UNCHANGED <<requestVars, browser, analysisResult>>

\* await performKRDSAnalysis(page) throws (one of its page.evaluate calls does)
AnalysisThrows ==
  /\ pc = "start"
  /\ Throw(ANALYSIS_FAILED)
  /\ UNCHANGED <<requestVars, browser, analysisResult>>

\* what a call browser.close() can do: resolve with the browser closed, or throw
\* with the browser closed or still open
CloseOutcomes == {"closed", "throwsClosed", "throwsOpen"}

\* the browser after a call browser.close() with that outcome
AfterClose(outcome) == IF outcome = "throwsOpen" THEN browser ELSE "closed"

\* await browser.close() of the try block, after the analysis
CloseBrowser(outcome) ==
  /\ pc = "analyzed"
  /\ browser' = AfterClose(outcome)
  /\ IF outcome = "closed" THEN pc' = "return" /\ UNCHANGED error ELSE Throw(CLOSE_FAILED)
  /\ UNCHANGED <<requestVars, analysisResult>>

\* return {success: true, data: {url, viewport, timestamp, executionTime,
\* ...analysisResults}}: data names the AnalysisResult whose fields it spreads
ReturnSuccess ==
  /\ pc = "return"
  /\ analysisResult' = <<[success |-> TRUE, data |-> analysisRef]>>
  /\ pc' = "resolved"
  /\ UNCHANGED <<requestVars, browser, error>>

\* the catch block without its call of browser.close()
CatchClose_noClose(outcome) ==
  /\ pc = "catch"
  /\ pc' = "returnFailure"
  /\ UNCHANGED <<requestVars, browser, error, analysisResult>>

\* the catch block up to its return: if (browser) { await browser.close(); }.
\* A throw of this call is caught by nothing: analyzeWebsite rejects.
CatchClose(outcome) ==
  /\ pc = "catch"
  /\ IF browser = "none"
     THEN /\ pc' = "returnFailure"
          /\ UNCHANGED <<browser, error>>
     ELSE /\ browser' = AfterClose(outcome)
          /\ IF outcome = "closed"
             THEN pc' = "returnFailure" /\ UNCHANGED error
             ELSE pc' = "rejected" /\ error' = CLOSE_FAILED
  /\ UNCHANGED <<requestVars, analysisResult>>

\* return {success: false, error: error.message}
ReturnFailure ==
  /\ pc = "returnFailure"
  /\ analysisResult' = <<[success |-> FALSE, error |-> error]>>
  /\ pc' = "resolved"
  /\ UNCHANGED <<requestVars, browser, error>>

InitBrowser ==
  /\ pc = "launch"
  /\ heap = <<>>
  /\ analysisRef = 0
  /\ exceptions = <<>>
  /\ checklistId = ""
  /\ finalRef = 0
  /\ againRef = 0
  /\ items = <<>>
  /\ group = <<>>
  /\ keyField = ""
  /\ adjustedItems = <<>>
  /\ pageAudit = AuditReport(<<>>, 0)
  /\ categoryScore = <<>>
  /\ browser = "none"
  /\ error = ""
  /\ analysisResult = <<>>

NextBrowser ==
  \/ \E ok \in BOOLEAN : Launch(ok)
  \/ \E ok \in BOOLEAN : NewContext(ok)
  \/ \E ok \in BOOLEAN : NewPage(ok)
  \/ \E ok \in BOOLEAN : Goto(ok)
  \/ /\ pc = "start"
     /\ \E designStyles \in DesignStyleResults, components \in ComponentResults,
           basicPatterns \in BasicPatternResults, servicePatterns \in ServicePatternResults,
           audit \in PageAudits :
          PerformKRDSAnalysis(designStyles, components, basicPatterns, servicePatterns, audit)
  \/ AnalysisThrows
  \/ \E outcome \in CloseOutcomes : CloseBrowser(outcome)
  \/ ReturnSuccess
  \/ \E outcome \in CloseOutcomes : CatchClose(outcome)
  \/ ReturnFailure

SpecBrowser == InitBrowser /\ [][NextBrowser]_vars

-----------------------------------------------------------------------------
(* Vocabulary of the properties *)

\* an AnalysisResult as a value: the object with its krdsCompliance object inlined
View(h, ref) == [h[ref] EXCEPT !.krdsCompliance = h[h[ref].krdsCompliance]]

\* the four sections: the exception section name that routes to each, the
\* field that holds it and its designated key field
Routes ==
  { [section |-> SEC_DESIGN, field |-> "designStyles", kf |-> "category"],
    [section |-> SEC_COMPONENT, field |-> "components", kf |-> "type"],
    [section |-> SEC_BASIC, field |-> "basicPatterns", kf |-> "name"],
    [section |-> SEC_SERVICE, field |-> "servicePatterns", kf |-> "name"] }

\* resolved section name of an exception request
ResolvedSection(e) ==
  IF e.section # "" THEN e.section ELSE IF e.category # "" THEN e.category ELSE SEC_OTHER

\* resolved matching key of an exception request ("" never matches)
MatchKey(e) == IF e.item_key # "" THEN e.item_key ELSE e.item_name

\* resolved key of an item of a section with designated key field kf
ResolvedItemKey(item, kf) ==
  IF item[kf] # "" THEN item[kf]
  ELSE IF item.name # "" THEN item.name ELSE item.englishName

\* some exception of the list is routed to a section and matches an item of it
MatchesSomeItem(data, excs) ==
  \E rt \in Routes, j \in 1..Len(excs) :
    /\ ResolvedSection(excs[j]) = rt.section
    /\ MatchKey(excs[j]) # ""
    /\ \E i \in 1..Len(data[rt.field]) :
         ResolvedItemKey(data[rt.field][i], rt.kf) = MatchKey(excs[j])

\* no exception's matching key is the key of an item of any section
KeysInNoSection(data, excs) ==
  \A rt \in Routes, j \in 1..Len(excs) :
    \A i \in 1..Len(data[rt.field]) :
      ResolvedItemKey(data[rt.field][i], rt.kf) # MatchKey(excs[j])

\* the four section aggregates of an AnalysisResult (Category Aggregator)
SectionAggregates(data) ==
  <<handler_calculateCategoryScore(data.designStyles),
    handler_calculateCategoryScore(data.components),
    handler_calculateCategoryScore(data.basicPatterns),
    handler_calculateCategoryScore(data.servicePatterns)>>

Elements(seq) == {seq[i] : i \in 1..Len(seq)}

\* the request handler has applied a non-empty exception list
Overridden == pc = "adjusted" /\ Len(exceptions) > 0

ExceptionInfoOf(ref) == heap[ref].exceptionInfo[1]

-----------------------------------------------------------------------------
(* Properties *)

\* C1: in every AnalysisResult built by performKRDSAnalysis or returned by
\* applyExceptions, overallScore equals krdsCompliance.score.
C1_OverallScoreIsKrdsScore ==
  \A ref \in {analysisRef, finalRef, againRef} \ {0} :
    heap[ref].overallScore = heap[heap[ref].krdsCompliance].score

\* C2: the overallScore applyExceptions writes for a non-empty list is the rounded
\* mean of the four section aggregates of the adjusted sections, an empty section
\* counting as 0 in a divisor of four; it lies in 0..100, is 0 when all four
\* sections are empty, and is what the analyzer's calculateOverallScore returns.
C2_OverallIsMeanOfFourSections ==
  Overridden =>
    LET adjusted == heap[finalRef]
        aggregates == SectionAggregates(adjusted)
    IN /\ adjusted.overallScore = MathRound(SumSeq(aggregates), Len(aggregates))
       /\ adjusted.overallScore \in 0..100
       /\ (\A rt \in Routes : Len(adjusted[rt.field]) = 0) => adjusted.overallScore = 0
       /\ adjusted.overallScore = analyzer_calculateOverallScore(adjusted)

\* C3: monotonicity.  For a non-empty exception list that matches at least one
\* item of the assembled AnalysisResult, adjustedScore >= originalScore, that is
\* scoreDifference >= 0.
C3_AdjustedScoreNotLower ==
  (Overridden /\ MatchesSomeItem(heap[analysisRef], exceptions)) =>
    /\ ExceptionInfoOf(finalRef).adjustedScore >= ExceptionInfoOf(finalRef).originalScore
    /\ ExceptionInfoOf(finalRef).scoreDifference >= 0

\* C3 witness: a matching list was applied and the score rose
C3_Witness ==
  /\ Overridden
  /\ MatchesSomeItem(heap[analysisRef], exceptions)
  /\ ExceptionInfoOf(finalRef).scoreDifference > 0

\* C4 as stated: applyExceptions applied to its own result, with the same list and
\* id, returns the same adjusted result.
C4_SecondApplicationSameResult ==
  pc = "readjusted" => View(heap, againRef) = View(heap, finalRef)

\* C4 amended: the second application returns the same sections, overallScore,
\* krdsCompliance and every other field, and the same exceptionInfo except that
\* its originalScore is the first application's adjustedScore and its
\* scoreDifference is 0.
C4_SecondApplicationSameUpToOriginalScore ==
  pc = "readjusted" =>
    /\ [View(heap, againRef) EXCEPT !.exceptionInfo = <<>>]
         = [View(heap, finalRef) EXCEPT !.exceptionInfo = <<>>]
    /\ Len(heap[againRef].exceptionInfo) = Len(heap[finalRef].exceptionInfo)
    /\ Len(exceptions) > 0 =>
         ExceptionInfoOf(againRef) =
           [ExceptionInfoOf(finalRef) EXCEPT
              !.originalScore = ExceptionInfoOf(finalRef).adjustedScore,
              !.scoreDifference = 0]

\* C4 witness: a list that matched and changed the score was applied twice
C4_Witness ==
  /\ pc = "readjusted"
  /\ Len(exceptions) > 0
  /\ MatchesSomeItem(heap[analysisRef], exceptions)
  /\ ExceptionInfoOf(finalRef).scoreDifference # 0

\* C5 as stated: exceptionInfo.sections is exactly the set of recognized section
\* names that received an exception; it never holds the fallback bucket or an
\* unrecognized name.
C5_SectionsAreRecognizedOnly ==
  Overridden =>
    LET sections == Elements(ExceptionInfoOf(finalRef).sections)
    IN /\ sections = {sec \in RecognizedSections :
                        \E j \in 1..Len(exceptions) : ResolvedSection(exceptions[j]) = sec}
       /\ SEC_OTHER \notin sections

\* C5 amended: exceptionInfo.sections holds, once each, the resolved section name
\* of every exception of the list, the fallback bucket and unrecognized names
\* included; a recognized section is in it exactly when it received an exception,
\* whether or not any item matched.
C5_SectionsAreGroupKeys ==
  Overridden =>
    LET sections == ExceptionInfoOf(finalRef).sections
    IN /\ Elements(sections) = {ResolvedSection(exceptions[j]) : j \in 1..Len(exceptions)}
       /\ \A i, j \in 1..Len(sections) : sections[i] = sections[j] => i = j
       /\ \A sec \in RecognizedSections :
            sec \in Elements(sections) <=>
              \E j \in 1..Len(exceptions) : ResolvedSection(exceptions[j]) = sec

\* C5 witness: the list named a recognized section without matching any item
\* and also fell into the fallback bucket
C5_Witness ==
  /\ Overridden
  /\ ~MatchesSomeItem(heap[analysisRef], exceptions)
  /\ SEC_OTHER \in Elements(ExceptionInfoOf(finalRef).sections)
  /\ Elements(ExceptionInfoOf(finalRef).sections) \cap RecognizedSections # {}

\* the spec's scenario: a design-styles section of colors (40) and typography (70)
ScenarioStyles == <<DesignStyleItem("colors", 40), DesignStyleItem("typography", 70)>>
\* the scenario's exception as the spec writes it, without section or category
ScenarioException == Exc("colors", "", "", "", "agency exemption")
\* the same exception naming the design-styles section
ScenarioExceptionWithSection == Exc("colors", "", SEC_DESIGN, "", "agency exemption")

\* what the scenario expects of the returned design-styles section
ScenarioOutcome(styles) ==
  /\ styles[1].category = "colors"
  /\ styles[1].score = JSNum(100)
  /\ styles[1].excluded
  /\ styles[1].exclusionReason = "agency exemption"
  /\ styles[2] = ScenarioStyles[2]
  /\ handler_calculateCategoryScore(ScenarioStyles) = 55
  /\ handler_calculateCategoryScore(styles) = 85

\* C7 as stated: with design styles colors (40) and typography (70) and the
\* exception list [{item_key:"colors", reason:"agency exemption"}], colors is
\* returned with score 100, excluded, exclusionReason "agency exemption",
\* typography is unchanged and the section aggregate moves from 55 to 85.
C7_ScenarioAsStated ==
  (/\ pc = "adjusted"
   /\ heap[analysisRef].designStyles = ScenarioStyles
   /\ exceptions = <<ScenarioException>>)
  => ScenarioOutcome(heap[finalRef].designStyles)

\* C7 amended: the scenario's outcome holds when the exception also names the
\* design-styles section, [{item_key:"colors", section:"디자인 스타일",
\* reason:"agency exemption"}].
C7_ScenarioWithSection ==
  (/\ pc = "adjusted"
   /\ heap[analysisRef].designStyles = ScenarioStyles
   /\ exceptions = <<ScenarioExceptionWithSection>>)
  => ScenarioOutcome(heap[finalRef].designStyles)

\* C7 witness: the scenario with the section named has been run
C7_Witness ==
  /\ pc = "adjusted"
  /\ heap[analysisRef].designStyles = ScenarioStyles
  /\ exceptions = <<ScenarioExceptionWithSection>>
  /\ heap[finalRef].designStyles[1].excluded

\* C8: for an assembled AnalysisResult (an empty section included) and a
\* non-empty exception list whose matching keys occur in no section,
\* applyExceptions changes no item and scoreDifference = 0.
C8_UnmatchedKeysChangeNothing ==
  (Overridden /\ KeysInNoSection(heap[analysisRef], exceptions)) =>
    /\ \A rt \in Routes : heap[finalRef][rt.field] = heap[analysisRef][rt.field]
    /\ ExceptionInfoOf(finalRef).scoreDifference = 0
    /\ ExceptionInfoOf(finalRef).adjustedScore = ExceptionInfoOf(finalRef).originalScore

\* C9: applyExceptions never mutates its input.  Over a call, the AnalysisResult
\* passed in (sections, items, krdsCompliance, overallScore, no exceptionInfo)
\* is the same value after as before; for a non-empty list the rewrites are in
\* another object, the returned one.
C9_InputNotMutated ==
  [][/\ pc = "analyzed" =>
          /\ View(heap', analysisRef) = View(heap, analysisRef)
          /\ heap'[analysisRef].exceptionInfo = <<>>
          /\ Len(exceptions') > 0 => finalRef' # analysisRef
     /\ pc = "adjusted" =>
          /\ View(heap', finalRef) = View(heap, finalRef)
          /\ Len(exceptions) > 0 => againRef' # finalRef]_vars

\* C9 witness: a call rewrote items and nested details in the returned value
C9_Witness ==
  /\ Overridden
  /\ heap[finalRef].designStyles # heap[analysisRef].designStyles
  /\ View(heap, finalRef).krdsCompliance.designTokensDetail
       # View(heap, analysisRef).krdsCompliance.designTokensDetail
  /\ heap[analysisRef].exceptionInfo = <<>>

\* C6: per-section override.  adjustSection returns one item per item; an item
\* whose resolved key (key field, else name, else englishName) is non-empty and
\* equals the matching key (item_key, else item_name) of some exception of the
\* group is returned with score 100, compliance "준수" if it was a string else
\* 100, issues [], excluded true and as exclusionReason the reason of the first
\* exception matching that key, the default placeholder if that exception gives
\* none; every other item, one with an empty resolved key included, is returned
\* unchanged.
C6_SectionOverride ==
  pc = "sectionAdjusted" =>
    /\ Len(adjustedItems) = Len(items)
    /\ \A i \in 1..Len(items) :
         LET item == items[i]
             key == ResolvedItemKey(item, keyField)
             matching == SelectSeq(group, LAMBDA e : MatchKey(e) = key)
         IN IF key # "" /\ matching # <<>>
            THEN adjustedItems[i] =
                   [category |-> item.category, type |-> item.type,
                    name |-> item.name, englishName |-> item.englishName,
                    score |-> JSNum(100),
                    compliance |-> IF item.compliance.t = "string"
                                   THEN JSStr(COMPLIANT) ELSE JSNum(100),
                    issues |-> <<>>,
                    excluded |-> TRUE,
                    exclusionReason |-> IF matching[1].reason # ""
                                        THEN matching[1].reason ELSE DEFAULT_REASON]
            ELSE adjustedItems[i] = item

\* C6 witness: a call rewrote an item matched through a fallback key and left an
\* item without any key unchanged although an exception had an empty key
C6_Witness ==
  /\ pc = "sectionAdjusted"
  /\ \E i \in 1..Len(items) :
       /\ items[i][keyField] = ""
       /\ adjustedItems[i].excluded
       /\ adjustedItems[i].score = JSNum(100)
  /\ \E i \in 1..Len(items) :
       /\ ResolvedItemKey(items[i], keyField) = ""
       /\ adjustedItems[i] = items[i]
  /\ \E j \in 1..Len(group) : MatchKey(group[j]) = ""

\* the three rules of the claim for a report's wcagLevel, given the impacts of
\* the audit's violations
LevelRules(report, violations) ==
  /\ report.violations = 0 => report.wcagLevel = "AA"
  /\ "critical" \in Elements(violations) => report.wcagLevel = "None"
  /\ (/\ report.violations > 0
      /\ "critical" \notin Elements(violations)
      /\ "serious" \notin Elements(violations)) => report.wcagLevel = "A"

\* C10 as stated: every KwcagReport of an analysis, built by generateKWCAGReport
\* or by the fallback of runAxeAnalysis, has wcagLevel "AA" when its violation
\* count is zero, "None" when a violation is critical, and "A" when there are
\* violations but none critical or serious.
C10_LevelFollowsViolations ==
  pc = "analyzed" =>
    LevelRules(heap[analysisRef].kwcagReport, heap[analysisRef].axeResults.violations)

\* C10 amended: the three rules hold of every report built by
\* generateKWCAGReport; the fallback report of a failed audit has violation
\* count zero and wcagLevel "None".
C10_LevelFollowsViolationsUnlessAuditFailed ==
  pc = "analyzed" =>
    IF pageAudit.failed
    THEN /\ heap[analysisRef].kwcagReport.violations = 0
         /\ heap[analysisRef].kwcagReport.wcagLevel = "None"
    ELSE /\ heap[analysisRef].kwcagReport.violations = Len(pageAudit.violations)
         /\ LevelRules(heap[analysisRef].kwcagReport, pageAudit.violations)

\* C10 witness: an analysis whose audit failed carries the fallback report
C10_Witness ==
  /\ pc = "analyzed"
  /\ pageAudit.failed
  /\ heap[analysisRef].kwcagReport.violations = 0
  /\ heap[analysisRef].kwcagReport.wcagLevel = "None"

\* what the Category Aggregator's contract makes an item contribute: its score
\* when that is a number, else its compliance when that is a number, else 0
Contribution(item) ==
  IF item.score.t = "number" THEN item.score.n
  ELSE IF item.compliance.t = "number" THEN item.compliance.n ELSE 0

\* C11: for every sequence of items calculateCategoryScore returns 0 for the empty
\* sequence and otherwise the mean, rounded half up, of the items' contributions
\* (score, or compliance when the score is absent or not a number, else 0); when
\* every score is an integer in 0..100 the result is in 0..100 and is the rounded
\* mean of the scores, a score of 0 counting as 0; and the analyzer's function
\* returns the same value as the exception handler's.
C11_CategoryAggregator ==
  pc = "categoryScored" =>
    LET n == Len(items)
        expected == IF n = 0 THEN 0
                    ELSE MathRound(SumSeq([i \in 1..n |-> Contribution(items[i])]), n)
        integerScores == \A i \in 1..n : items[i].score.t = "number" /\ items[i].score.n \in 0..100
    IN /\ categoryScore[1].handler = expected
       /\ integerScores =>
            /\ categoryScore[1].handler \in 0..100
            /\ n > 0 => categoryScore[1].handler =
                           MathRound(SumSeq([i \in 1..n |-> items[i].score.n]), n)
       /\ categoryScore[1].analyzer = JSNum(categoryScore[1].handler)

\* C12: when chromium.launch succeeded, the browser is closed before analyzeWebsite
\* delivers its result, whichever later step failed or none; and what
\* analyzeWebsite resolves to is {success: true, data} or {success: false, error},
\* with no launched browser left open.
C12_BrowserClosedBeforeResult ==
  /\ (pc \in {"return", "returnFailure", "resolved"} /\ browser # "none") => browser = "closed"
  /\ pc = "resolved" =>
       \/ /\ DOMAIN analysisResult[1] = {"success", "data"}
          /\ analysisResult[1].success
          /\ analysisResult[1].data = analysisRef /\ analysisRef # 0
       \/ /\ DOMAIN analysisResult[1] = {"success", "error"}
          /\ ~analysisResult[1].success
          /\ analysisResult[1].error # ""
  /\ pc # "resolved" => analysisResult = <<>>

\* C12 witness: page.goto timed out in a launched browser, and analyzeWebsite
\* resolved to the failure with the browser closed
C12_Witness ==
  /\ pc = "resolved"
  /\ browser = "closed"
  /\ analysisResult = <<[success |-> FALSE, error |-> GOTO_TIMEOUT]>>

\* C13: after applyExceptions with a non-empty exception list the stored
\* per-section aggregates agree with the adjusted items:
\* krdsCompliance.basicPatterns.overallScore is the Category Aggregator of the
\* adjusted basicPatterns, and krdsCompliance.servicePatterns.overallScore is the
\* Category Aggregator of the adjusted servicePatterns.
C13_StoredAggregatesAgree ==
  Overridden =>
    LET adjusted == heap[finalRef]
        krdsCompliance == heap[adjusted.krdsCompliance]
    IN /\ krdsCompliance.basicPatterns.overallScore =
            handler_calculateCategoryScore(adjusted.basicPatterns)
       /\ krdsCompliance.servicePatterns.overallScore =
            handler_calculateCategoryScore(adjusted.servicePatterns)

====
